---- MODULE Spec2Model ----
(***************************************************************************)
(* Model of the order service: the echo server of server/main.go with its  *)
(* single handler PutOrderId, the one-shot client of client/main.go, and   *)
(* the wire contract of spec.yaml (README): PUT /order/{id} with an Order  *)
(* JSON body.                                                              *)
(***************************************************************************)
EXTENDS Integers, Sequences, FiniteSets, TLC

\* ------------------------------------------------------------------ bounds
\* Number of requests (connections) the server sees in one run.
NumReq == 2

Slots == 1..NumReq

\* --------------------------------------------------------- schema (spec.yaml)
OrderItemTeaTableGreen == "Tea Table Green"
OrderItemTeaTableRed == "Tea Table Red"

\* enum of Order.item
OrderItemEnum == {OrderItemTeaTableGreen, OrderItemTeaTableRed}

\* An optional (pointer) field is a sequence of length 0 (nil) or 1.
Nil == <<>>
Ptr(v) == <<v>>

\* Strings a caller can put in Order.item: OrderItem is a plain string type,
\* so a value outside the enum is representable too.
ItemStrings == OrderItemEnum \cup {"Nonexistent Item"}

Prices == {0, 14}

\* Ids used by callers other than client/main.go, which sends "234578".
IDs == {"1"}

\* type Order: item, price (and id) are all non-required properties
Order ==
    [id : {Nil}, item : {Nil} \cup {Ptr(s) : s \in ItemStrings},
     price : {Nil} \cup {Ptr(n) : n \in Prices}]

\* var req spec.PutOrderIdJSONRequestBody -- the Go zero value
ZeroOrder == [id |-> Nil, item |-> Nil, price |-> Nil]

\* -------------------------------------------------------------- JSON values
JStr(s) == [t |-> "string", s |-> s, n |-> 0]
JNum(n) == [t |-> "number", s |-> "", n |-> n]

\* A request body: unparseable text, or a JSON object given as a set of
\* <<key, value>> members.
MalformedBody == [parse |-> FALSE, obj |-> {}]
JObject(members) == [parse |-> TRUE, obj |-> members]

\* json.Marshal of an Order: `omitempty` on pointer fields leaves a nil
\* field out of the object.
EncodeOrder(o) ==
    JObject((IF o.id = Nil THEN {} ELSE {<<"id", JStr(o.id[1])>>})
            \cup (IF o.item = Nil THEN {} ELSE {<<"item", JStr(o.item[1])>>})
            \cup (IF o.price = Nil THEN {} ELSE {<<"price", JNum(o.price[1])>>}))

HasKey(body, k) == \E m \in body.obj : m[1] = k
ValueOf(body, k) == (CHOOSE m \in body.obj : m[1] = k)[2]

\* A member decodes into its field only when its JSON type is the field's.
TypeOK(body, k, t) == HasKey(body, k) => ValueOf(body, k).t = t

\* json decoding of the body into *Order: a missing key leaves the pointer
\* nil; a string key yields a pointer to the string, a number key a pointer
\* to the int; a mistyped member or unparseable text is an error.
DecodeOrder(body) ==
    IF ~body.parse \/ ~TypeOK(body, "id", "string")
       \/ ~TypeOK(body, "item", "string") \/ ~TypeOK(body, "price", "number")
    THEN [err |-> TRUE, req |-> ZeroOrder]
    ELSE [err |-> FALSE,
          req |-> [id |-> IF HasKey(body, "id") THEN Ptr(ValueOf(body, "id").s) ELSE Nil,
                   item |-> IF HasKey(body, "item") THEN Ptr(ValueOf(body, "item").s) ELSE Nil,
                   price |-> IF HasKey(body, "price") THEN Ptr(ValueOf(body, "price").n) ELSE Nil]]

\* ------------------------------------------------------------------- routing
\* The client builds the path "/order/" + id; a path is its segment list.
EncodePath(id) == <<"order", id>>

\* Route registered by RegisterHandlers: PUT /order/:id (the mutant drops
\* the method test).
Matches_AnyMethod(method, path) == Len(path) = 2 /\ path[1] = "order"

Matches(method, path) == method = "PUT" /\ Len(path) = 2 /\ path[1] = "order"

\* ctx.Param("id")
PathParamId(path) == path[2]

\* echo's answer for a request no route serves.
RouteMissStatus(method, path) ==
    IF Len(path) = 2 /\ path[1] = "order" THEN 405 ELSE 404

\* Status of a response the handler never writes: returning nil without
\* calling c.NoContent/c.JSON leaves net/http's implicit 200.
StatusOK == 200

\* The only response spec.yaml declares.
StatusCreated == 201

\* Bind of the handler: c.Bind(&req) fills req from the body and reports
\* the decoder's error (the mutant passes req by value, so it stays zero).
Bind_ByValue(body) == [err |-> DecodeOrder(body).err, req |-> ZeroOrder]

Bind(body) == DecodeOrder(body)

\* ------------------------------------------------------------------ requests
\* What a caller of the generated client passes: the id and the Order.
ClientInputs == [id : IDs, order : Order]

\* The request the generated client puts on the wire for (id, body).
EncodeRequest(in) ==
    [method |-> "PUT", path |-> EncodePath(in.id), body |-> EncodeOrder(in.order)]

\* The call of client/main.go: id "234578", item Tea Table Green, price 14.
MainInput ==
    [id |-> "234578",
     order |-> [id |-> Nil, item |-> Ptr(OrderItemTeaTableGreen), price |-> Ptr(14)]]

\* Requests written by hand (curl): unparseable body, mistyped price, a
\* method and paths the service does not declare.
RawRequests ==
    {[method |-> "PUT", path |-> <<"order", "1">>, body |-> MalformedBody],
     [method |-> "PUT", path |-> <<"order", "1">>,
      body |-> JObject({<<"price", JStr("cheap")>>})],
     [method |-> "GET", path |-> <<"order", "1">>, body |-> JObject({})],
     [method |-> "PUT", path |-> <<"orders">>,
      body |-> JObject({<<"item", JStr(OrderItemTeaTableRed)>>})],
     [method |-> "PUT", path |-> <<"order", "1", "items">>, body |-> MalformedBody]}

NoWire == [method |-> "", path |-> <<>>, body |-> MalformedBody]

NoRequest == [st |-> "none", from |-> "none", input |-> <<>>, wire |-> NoWire, status |-> 0]

NewRequest(from, input, wire) ==
    [st |-> "inflight", from |-> from, input |-> input, wire |-> wire, status |-> 0]

\* --------------------------------------------------------------------- state
VARIABLES
    serverState,  \* "down", "running" or "exited" (the server process)
    fatalBy,      \* slot whose handler called log.Fatal, 0 if none
    reqs,         \* slot -> request: its wire form, stage and response status
    calls,        \* slot -> number of PutOrderId invocations for the request
    log,          \* entries written by log.Printf in PutOrderId
    cpc,          \* client: "start", "created", "waiting", "printed", "fatal"
    cSent,        \* client: number of PutOrderIdWithResponse requests issued
    cCall,        \* client: the exchange: "none", "pending", "response", "failed"
    cResp,        \* client: status of the response received, if any
    cErr,         \* client: "none", "new" or "transport"
    cOut          \* client: what fmt.Println printed

vars == <<serverState, fatalBy, reqs, calls, log, cpc, cSent, cCall, cResp, cErr, cOut>>

serverVars == <<serverState, fatalBy, reqs, calls, log>>
clientVars == <<cpc, cSent, cCall, cResp, cErr, cOut>>

Init ==
    /\ serverState = "down"
    /\ fatalBy = 0
    /\ reqs = [r \in Slots |-> NoRequest]
    /\ calls = [r \in Slots |-> 0]
    /\ log = <<>>
    /\ cpc = "start"
    /\ cSent = 0
    /\ cCall = "none"
    /\ cResp = <<>>
    /\ cErr = "none"
    /\ cOut = <<>>

\* -------------------------------------------------------------------- server
\* main: echo.New, RegisterHandlers, e.Start listening on the address.
ServerStart ==
    /\ serverState = "down"
    /\ serverState' = "running"
    /\ UNCHANGED <<fatalBy, reqs, calls, log, clientVars>>

\* main: e.Start returns an error (address in use) and e.Logger.Fatal ends
\* the process.
ServerStartFail ==
    /\ serverState = "down"
    /\ serverState' = "exited"
    /\ UNCHANGED <<fatalBy, reqs, calls, log, clientVars>>

\* A request of some other caller reaches the listening server: one built
\* by the generated client from (id, order), or one written by hand.
Arrive(r) ==
    /\ serverState = "running"
    /\ reqs[r].st = "none"
    /\ \/ \E in \in ClientInputs :
             reqs' = [reqs EXCEPT ![r] = NewRequest("client", <<in>>, EncodeRequest(in))]
       \/ \E w \in RawRequests :
             reqs' = [reqs EXCEPT ![r] = NewRequest("raw", <<>>, w)]
    /\ UNCHANGED <<serverState, fatalBy, calls, log, clientVars>>

\* The router finds no route for the request and answers by itself; the
\* handler is not involved.
RouteMiss(r) ==
    /\ serverState = "running"
    /\ reqs[r].st = "inflight"
    /\ ~Matches(reqs[r].wire.method, reqs[r].wire.path)
    /\ reqs' = [reqs EXCEPT ![r].st = "answered",
                            ![r].status = RouteMissStatus(reqs[r].wire.method, reqs[r].wire.path)]
    /\ UNCHANGED <<serverState, fatalBy, calls, log, clientVars>>

\* func (s server) PutOrderId(c echo.Context, id string) error, run for a
\* request the route matches.  A Bind error calls log.Fatal, which exits the
\* process before any response is written; otherwise the handler logs id
\* and req and returns nil, and the response goes out with the default
\* status.
PutOrderId(r) ==
    /\ serverState = "running"
    /\ reqs[r].st = "inflight"
    /\ Matches(reqs[r].wire.method, reqs[r].wire.path)
    /\ calls' = [calls EXCEPT ![r] = @ + 1]
    /\ LET id == PathParamId(reqs[r].wire.path)
           b == Bind(reqs[r].wire.body)
       IN IF b.err
          THEN /\ serverState' = "exited"
               /\ fatalBy' = r
               /\ UNCHANGED <<reqs, log>>
          ELSE /\ log' = Append(log, [r |-> r, id |-> id, req |-> b.req])
               /\ reqs' = [reqs EXCEPT ![r].st = "answered", ![r].status = StatusOK]
               /\ UNCHANGED <<serverState, fatalBy>>
    /\ UNCHANGED clientVars

\* -------------------------------------------------------------------- client
\* main, after PutOrderIdWithResponse returned (resp, err): log.Fatal(err)
\* when err is set, else fmt.Println(resp.StatusCode()).  resp is the
\* sequence holding the response status, empty when there is no response.
\* Mutants: the error is swallowed and the zero status printed; the call is
\* tried again after an error; a non-2xx status is treated as an error.
ClientReport_Swallow(resp, err) ==
    [pc |-> "printed", out |-> IF err = "none" THEN resp ELSE <<0>>, err |-> "none"]

ClientReport_Retry(resp, err) ==
    IF err # "none"
    THEN [pc |-> "created", out |-> <<>>, err |-> "none"]
    ELSE [pc |-> "printed", out |-> resp, err |-> "none"]

ClientReport_Non2xxFatal(resp, err) ==
    IF err # "none" \/ resp[1] >= 300
    THEN [pc |-> "fatal", out |-> <<>>, err |-> "transport"]
    ELSE [pc |-> "printed", out |-> resp, err |-> "none"]

ClientReport(resp, err) ==
    IF err # "none"
    THEN [pc |-> "fatal", out |-> <<>>, err |-> err]
    ELSE [pc |-> "printed", out |-> resp, err |-> "none"]

\* Statuses a different server listening on the client's address may send.
ForeignStatuses == {201, 404, 500}

\* main: spec.NewClientWithResponses(server) succeeds.
ClientNew ==
    /\ cpc = "start"
    /\ cpc' = "created"
    /\ UNCHANGED <<serverVars, cSent, cCall, cResp, cErr, cOut>>

\* main: spec.NewClientWithResponses(server) fails, log.Fatal(err).
ClientNewFail ==
    /\ cpc = "start"
    /\ cpc' = "fatal"
    /\ cErr' = "new"
    /\ UNCHANGED <<serverVars, cSent, cCall, cResp, cOut>>

ClientFinish(resp, err) ==
    LET rep == ClientReport(resp, err)
    IN /\ cpc' = rep.pc
       /\ cOut' = cOut \o rep.out
       /\ cErr' = rep.err
       /\ cResp' = resp
       /\ cCall' = IF resp = <<>> THEN "failed" ELSE "response"

\* main: PutOrderIdWithResponse against an address where nothing listens:
\* the exchange fails at transport level.
ClientCallRefused ==
    /\ cpc = "created"
    /\ serverState # "running"
    /\ cSent' = cSent + 1
    /\ ClientFinish(<<>>, "transport")
    /\ UNCHANGED serverVars

\* main: PutOrderIdWithResponse answered by some other server on the address.
ClientCallForeign ==
    /\ cpc = "created"
    /\ serverState # "running"
    /\ cSent' = cSent + 1
    /\ \E st \in ForeignStatuses : ClientFinish(<<st>>, "none")
    /\ UNCHANGED serverVars

\* main: PutOrderIdWithResponse sends the request to the running server.
ClientCallSend(r) ==
    /\ cpc = "created"
    /\ serverState = "running"
    /\ reqs[r].st = "none"
    /\ cSent' = cSent + 1
    /\ reqs' = [reqs EXCEPT ![r] = NewRequest("main", <<MainInput>>, EncodeRequest(MainInput))]
    /\ cpc' = "waiting"
    /\ cCall' = "pending"
    /\ UNCHANGED <<serverState, fatalBy, calls, log, cResp, cErr, cOut>>

\* main: the response to the client's request arrives.
ClientRecv(r) ==
    /\ cpc = "waiting"
    /\ reqs[r].from = "main"
    /\ reqs[r].st = "answered"
    /\ ClientFinish(<<reqs[r].status>>, "none")
    /\ UNCHANGED <<serverVars, cSent>>

\* main: the server process exited before answering; the connection drops.
ClientConnReset(r) ==
    /\ cpc = "waiting"
    /\ reqs[r].from = "main"
    /\ reqs[r].st = "inflight"
    /\ serverState = "exited"
    /\ ClientFinish(<<>>, "transport")
    /\ UNCHANGED <<serverVars, cSent>>

Next ==
    \/ ServerStart
    \/ ServerStartFail
    \/ \E r \in Slots : Arrive(r)
    \/ \E r \in Slots : RouteMiss(r)
    \/ \E r \in Slots : PutOrderId(r)
    \/ ClientNew
    \/ ClientNewFail
    \/ ClientCallRefused
    \/ ClientCallForeign
    \/ \E r \in Slots : ClientCallSend(r)
    \/ \E r \in Slots : ClientRecv(r)
    \/ \E r \in Slots : ClientConnReset(r)

Spec == Init /\ [][Next]_vars

TypeInv ==
    /\ serverState \in {"down", "running", "exited"}
    /\ fatalBy \in 0..NumReq
    /\ \A r \in Slots : reqs[r].st \in {"none", "inflight", "answered"}
    /\ cpc \in {"start", "created", "waiting", "printed", "fatal"}
    /\ cCall \in {"none", "pending", "response", "failed"}

\* ----------------------------------------------------------------- properties
\* The declared operation, stated on the wire form of a request.
IsPutOrder(w) == w.method = "PUT" /\ Len(w.path) = 2 /\ w.path[1] = "order"

\* The body parses into an Order (every member has its declared JSON type).
Decodable(w) == w.body.parse /\ \A m \in w.body.obj :
    \/ m[1] \in {"id", "item"} /\ m[2].t = "string"
    \/ m[1] = "price" /\ m[2].t = "number"

\* The body carries an item string outside the declared enumeration.
ItemOutsideEnum(w) ==
    \E m \in w.body.obj : m[1] = "item" /\ m[2].t = "string" /\ m[2].s \notin OrderItemEnum

ValidOrder(w) == Decodable(w) /\ ~ItemOutsideEnum(w)

Is4xx(status) == status >= 400 /\ status <= 499

Handled(r) == calls[r] > 0

LogOf(r) == {i \in DOMAIN log : log[i].r = r}

\* C1: every PUT /order/{id} with a valid Order body is answered 201.
C1_Status201 ==
    \A r \in Slots :
        (reqs[r].st = "answered" /\ IsPutOrder(reqs[r].wire) /\ ValidOrder(reqs[r].wire))
            => reqs[r].status = StatusCreated

\* C2: a PUT /order/{id} whose body cannot be decoded is answered with a
\* 4xx status and the server process keeps running.
C2_DecodeFailureIs4xx ==
    \A r \in Slots :
        (Handled(r) /\ ~Decodable(reqs[r].wire))
            => /\ serverState = "running"
               /\ reqs[r].st = "answered"
               /\ Is4xx(reqs[r].status)

\* C3: a decode failure in one request never keeps another request from
\* being handled: no other request is left in flight on a process that has
\* stopped.
C3_DecodeFailureIsLocal ==
    \A r, q \in Slots :
        (q # r /\ Handled(r) /\ ~Decodable(reqs[r].wire) /\ reqs[q].st = "inflight")
            => serverState = "running"

\* C4: a PUT /order/{id} whose item is outside the enumeration is rejected
\* with a 4xx status, the process staying alive.
C4_EnumViolationIs4xx ==
    \A r \in Slots :
        (Handled(r) /\ Decodable(reqs[r].wire) /\ ItemOutsideEnum(reqs[r].wire))
            => /\ serverState = "running" \/ fatalBy # r
               /\ reqs[r].st = "answered"
               /\ Is4xx(reqs[r].status)

\* C5: a request whose item is outside the enumeration never produces the
\* handler's log entry.
C5_EnumViolationNotLogged ==
    \A r \in Slots : ItemOutsideEnum(reqs[r].wire) => LogOf(r) = {}

\* C6: when the client's call fails at transport level the run ends in the
\* error outcome and prints nothing; a zero status is never printed.
C6_TransportErrorSurfaced ==
    /\ cCall = "failed" => (cpc = "fatal" /\ cErr = "transport" /\ cOut = <<>>)
    /\ \A i \in DOMAIN cOut : cOut[i] # 0

C6_Witness == cCall = "failed" /\ cSent = 1 /\ cpc = "fatal"

\* C7: for every request built by the client from (id, order), the id and
\* the Order the handler holds after Bind equal the ones sent, field for
\* field, an absent field staying absent.
C7_RoundTrip ==
    \A i \in DOMAIN log :
        LET e == log[i]
            q == reqs[e.r]
        IN q.input # <<>> =>
            /\ e.id = q.input[1].id
            /\ e.req.item = q.input[1].order.item
            /\ e.req.price = q.input[1].order.price

C7_Witness ==
    /\ \E i \in DOMAIN log :
          /\ reqs[log[i].r].from = "main"
          /\ log[i].id = "234578"
          /\ log[i].req.item = <<"Tea Table Green">>
          /\ log[i].req.price = <<14>>
    /\ \E i \in DOMAIN log :
          /\ reqs[log[i].r].from = "client"
          /\ reqs[log[i].r].input[1].order.item = Nil
          /\ reqs[log[i].r].input[1].order.price = <<0>>
          /\ log[i].req.item = Nil

\* C8: one client run issues at most one request, whatever the outcome.
C8_SingleAttempt ==
    /\ cSent <= 1
    /\ Cardinality({r \in Slots : reqs[r].from = "main"}) <= 1
    /\ cpc \in {"printed", "fatal"} /\ cErr # "new" => cSent = 1

C8_Witness == cSent = 1 /\ cpc = "printed" /\ cOut = <<500>>

C10_ExactlyOneOutcome ==
    /\ cpc \in {"start", "created", "waiting"} => (cOut = <<>> /\ cErr = "none")
    /\ cpc = "printed" => (Len(cOut) = 1 /\ cErr = "none")
    /\ cpc = "fatal" => (cOut = <<>> /\ cErr # "none")
    /\ cCall = "response" => (cpc = "printed" /\ cOut = cResp /\ cErr = "none")

C10_Witness == cCall = "response" /\ cpc = "printed" /\ cOut = <<404>>

====
